---- MODULE Spec2Model ----
(***************************************************************************)
(* PyLipsService (src/pylips-service/pylips_service.py): the coordinator   *)
(* of the face-server subprocess, the RobotFace session and the three TTS  *)
(* backends.                                                               *)
(*                                                                         *)
(* Spec      : the coordinator's operations called one at a time.  Every   *)
(*             operation is one action (pc "idle" -> "done") that runs the *)
(*             whole method, nested calls included; Return hands the       *)
(*             result back (pc "done" -> "idle").  `call` records the      *)
(*             operation, its arguments, its result and the collaborator   *)
(*             calls it made, in order.                                    *)
(* SpecConc  : request threads inside speak() concurrently, step by step.  *)
(* SpecLive  : the calls statement by statement, with the fairness that    *)
(*             termination needs.                                          *)
(***************************************************************************)
EXTENDS Integers, Sequences, FiniteSets, TLC

VARIABLES
    face,                   \* self.face: None, or the RobotFace session
    face_server_process,    \* self.face_server_process: None, or the Popen handle
    face_server_running,    \* self.face_server_running
    current_voice_id,       \* self.current_voice_id
    tts_method,             \* self.tts_method
    sapi_tts,               \* self.sapi_tts: None or the SAPI engine
    fallback_tts,           \* self.fallback_tts: None or the shared pyttsx3 engine
    tts_lock,               \* self.tts_lock: the thread holding it, NoThread when free
    PYLIPS_AVAILABLE,       \* module flag; RobotFace is None exactly when it is FALSE
    PYTTSX3_AVAILABLE,      \* module flag
    orphans,                \* spawned processes still alive whose handle was overwritten
    pc,                     \* "idle": no call in progress; "done": a call has just returned
    call,                   \* the call that has just returned
    tpc,                    \* SpecConc: each thread's position inside speak()
    twait,                  \* SpecConc: each thread's `wait` argument
    tret,                   \* SpecConc: each thread's result of its latest speak()
    calls,                  \* SpecConc: speak() calls started so far
    daemons,                \* SpecConc: speak_async threads started, before their pyttsx3.init()
    engine,                 \* SpecConc: the request threads' calls on the shared pyttsx3 engine, in order
    sharing,                \* SpecConc: speak_async threads running say/runAndWait on the shared engine
    stk,                    \* SpecLive: the frames of the call in progress, innermost last
    res                     \* SpecLive: what the latest frame returned

vars == <<face, face_server_process, face_server_running, current_voice_id,
          tts_method, sapi_tts, fallback_tts, tts_lock, PYLIPS_AVAILABLE,
          PYTTSX3_AVAILABLE, orphans, pc, call, tpc, twait, tret, calls, daemons,
          engine, sharing, stk, res>>

svcVars == <<face, face_server_process, face_server_running, current_voice_id,
             tts_method, orphans>>
envVars == <<sapi_tts, fallback_tts, PYLIPS_AVAILABLE, PYTTSX3_AVAILABLE>>
concVars == <<tpc, twait, tret, calls, daemons, engine, sharing>>
stepVars == <<stk, res>>

(***************************************************************************)
(* Values                                                                  *)
(***************************************************************************)
None == "None"
Engine == "engine"

\* The session object: without a Socket.IO client attribute, or with one that
\* reports connected or not.
Sessions == {"NoIO", "Connected", "Disconnected"}
HasIO(f) == f \in {"Connected", "Disconnected"}
IsConnected(f) == f = "Connected"

\* The Popen handle, with the state of the process behind it.
Handles == {"Alive", "Exited"}

VoiceIds == {None, "v1"}
TtsMethods == {"system", "polly"}

\* The keys of the expressions table.
expressions == {"happy", "sad", "surprised", "angry", "neutral"}
\* Names a caller may pass.
ExpressionInputs == expressions \cup {"glitch"}

\* range(10) of the startup poll loop, range(3) of the session attempts and
\* the index of the last attempt.
PollLimit == 10
MaxAttempts == 3
LastAttempt == 2

\* Bounds of the model.
MaxOrphans == 1
NThreads == 2
MaxCalls == 3

Threads == 1..NThreads
NoThread == 0

\* Results: a returned value, or an exception leaving the method.
RetTrue == "True"
RetFalse == "False"
RetNone == "None"
Raise == "Raise"

Count(log, e) == Cardinality({i \in 1..Len(log) : log[i] = e})
Has(log, e) == \E i \in 1..Len(log) : log[i] = e

(***************************************************************************)
(* The coordinator's state as one value, threaded through the methods.     *)
(***************************************************************************)
Cur ==
    [face |-> face, proc |-> face_server_process, running |-> face_server_running,
     voice |-> current_voice_id, method |-> tts_method, orphans |-> orphans,
     log |-> <<>>, ret |-> RetNone]

Log(s, e) == [s EXCEPT !.log = Append(@, e)]
Returns(s, r) == [s EXCEPT !.ret = r]

(***************************************************************************)
(* start_face_server / stop_face_server                                    *)
(***************************************************************************)
\* What the environment does during one start_face_server call:
\*   probe0 : the first connect_ex on port 8000 ("open": 0, "closed": not 0,
\*            "raise": the socket call raises)
\*   spawn  : subprocess.Popen returns a handle or raises
\*   exitAt, raiseAt, openAt : the poll iteration (1..PollLimit, 0: never) at
\*            which poll() first reports the process exited, the port probe
\*            raises, the port probe first succeeds
\*   aliveAfter : whether poll() after the loop still reports the process alive
PollPoints == {1, PollLimit}
PollTimes == PollPoints \cup {0}

\* Events after the iteration that ends the loop cannot be observed: only the
\* first event time matters, with several events possible in that iteration.
LoopInputs ==
    {l \in [exitAt : PollTimes, raiseAt : PollTimes, openAt : PollTimes,
            aliveAfter : BOOLEAN] :
        LET ts == {l.exitAt, l.raiseAt, l.openAt} \ {0}
        IN  /\ Cardinality(ts) <= 1
            /\ (ts # {} => l.aliveAfter)}

NoLoop == [exitAt |-> 0, raiseAt |-> 0, openAt |-> 0, aliveAfter |-> TRUE]

StartInputs ==
    {[probe0 |-> "open", spawn |-> "ok", loop |-> NoLoop],
     [probe0 |-> "raise", spawn |-> "ok", loop |-> NoLoop],
     [probe0 |-> "closed", spawn |-> "raise", loop |-> NoLoop]}
    \cup {[probe0 |-> "closed", spawn |-> "ok", loop |-> l] : l \in LoopInputs}

NoStart == [probe0 |-> "open", spawn |-> "ok", loop |-> NoLoop]

\* subprocess.Popen(...) assigned to self.face_server_process: the handle held
\* before is dropped, and its process, when alive, lives on unreferenced.
Spawn(s) ==
    [Log(s, "Popen") EXCEPT
        !.proc = "Alive",
        !.orphans = IF s.proc = "Alive" THEN @ + 1 ELSE @]

\* After the loop: poll() once more, communicate(timeout=1) when alive.
AfterPolls(s, loop) ==
    IF loop.aliveAfter
    THEN Returns(Log(Log(s, "poll"), "communicate"), RetFalse)
    ELSE Returns([Log(s, "poll") EXCEPT !.proc = "Exited"], RetFalse)

\* for i in range(10): iteration i (1-based) of the startup poll loop.
RECURSIVE PollLoop(_, _, _)

\* Variant: the port is probed before the exit check; a process that has
\* exited in the iteration in which the port answers goes unnoticed.
PollLoop_portFirst(s, i, loop) ==
    IF i > PollLimit THEN AfterPolls(s, loop)
    ELSE LET s1 == Log(s, "connect_ex") IN
         IF loop.raiseAt = i THEN Returns(s1, RetFalse)
         ELSE IF loop.openAt = i
              THEN Returns([s1 EXCEPT !.running = TRUE,
                                      !.proc = IF loop.exitAt = i THEN "Exited" ELSE @],
                           RetTrue)
              ELSE LET s2 == Log(s1, "poll") IN
                   IF loop.exitAt = i
                   THEN Returns([Log(s2, "communicate") EXCEPT
                                    !.proc = "Exited", !.running = FALSE], RetFalse)
                   ELSE PollLoop(s2, i + 1, loop)

PollLoop(s, i, loop) ==
    IF i > PollLimit THEN AfterPolls(s, loop)
    ELSE LET s1 == Log(s, "poll") IN
         IF loop.exitAt = i
         THEN Returns([Log(s1, "communicate") EXCEPT
                          !.proc = "Exited", !.running = FALSE], RetFalse)
         ELSE LET s2 == Log(s1, "connect_ex") IN
              IF loop.raiseAt = i THEN Returns(s2, RetFalse)
              ELSE IF loop.openAt = i
                   THEN Returns([s2 EXCEPT !.running = TRUE], RetTrue)
                   ELSE PollLoop(s2, i + 1, loop)

\* Variant: the flag is not set when the first probe finds the port open.
ProbeAndSpawn_noFlag(s, in) ==
    LET s1 == Log(s, "connect_ex") IN
    CASE in.probe0 = "raise" -> Returns(s1, RetFalse)
      [] in.probe0 = "open" -> Returns(s1, RetTrue)
      [] OTHER ->
            IF in.spawn = "raise" THEN Returns(Log(s1, "Popen!"), RetFalse)
            ELSE PollLoop(Spawn(s1), 1, in.loop)

\* The first probe of port 8000 and what follows it.
ProbeAndSpawn(s, in) ==
    LET s1 == Log(s, "connect_ex") IN
    CASE in.probe0 = "raise" -> Returns(s1, RetFalse)
      [] in.probe0 = "open" -> Returns([s1 EXCEPT !.running = TRUE], RetTrue)
      [] OTHER ->
            IF in.spawn = "raise" THEN Returns(Log(s1, "Popen!"), RetFalse)
            ELSE PollLoop(Spawn(s1), 1, in.loop)

\* Variant: the running flag is not consulted on entry.
start_face_server_noGuard(s, in) == ProbeAndSpawn(s, in)

start_face_server(s, in) ==
    IF s.running THEN Returns(s, RetTrue)
    ELSE ProbeAndSpawn(s, in)

\* terminate() on the held handle: the process is gone afterwards; when
\* terminate() raises, the exception leaves the method before the fields
\* are cleared.
TerminateInputs == {"ok", "raise"}

stop_face_server(s, in) ==
    IF s.proc # None
    THEN IF in = "raise"
         THEN Returns(Log(s, "terminate!"), Raise)
         ELSE Returns([Log(s, "terminate") EXCEPT
                          !.proc = None, !.running = FALSE], RetNone)
    ELSE Returns(s, RetNone)

\* POST /stop: stop_face_server(), then self.face = None.
stop_service(s, in) ==
    LET s1 == stop_face_server(s, in) IN
    IF s1.ret = Raise THEN s1 ELSE [s1 EXCEPT !.face = None]

(***************************************************************************)
(* initialize_face                                                         *)
(***************************************************************************)
\* One session attempt: RobotFace(...) raises, or returns a session without
\* an io attribute, or one whose io.connected is true / false after the
\* 2-second wait.
AttemptOutcomes == {"raise", "noio", "connected", "unconnected"}
AttemptSuccess == {"noio", "connected"}
Skipped == "-"

\* The outcomes of the attempts of one call: no attempt follows a successful one.
AttemptInputs ==
    {a \in [1..MaxAttempts -> AttemptOutcomes \cup {Skipped}] :
        \A i \in 1..MaxAttempts :
            (a[i] = Skipped) <=> (\E j \in 1..(i - 1) : a[j] \in AttemptSuccess)}

NoAttempts == [i \in 1..MaxAttempts |-> Skipped]

\* self.sapi_tts.GetVoices() and the search for voice_id: found and applied,
\* or raising.
LookupInputs == {"ok", "raise"}

\* Variant: only the TTS method is stored.
UpdateConfig_dropVoice(s, voice_id, method) == [s EXCEPT !.method = method]

\* self.current_voice_id = voice_id; self.tts_method = tts_method
UpdateConfig(s, voice_id, method) ==
    [s EXCEPT !.voice = voice_id, !.method = method]

\* if self.sapi_tts and voice_id: the voice lookup, its errors caught.
LookupVoice(s, voice_id, in) ==
    IF sapi_tts # None /\ voice_id # None
    THEN Log(s, IF in = "raise" THEN "GetVoices!" ELSE "GetVoices")
    ELSE s

\* for attempt in range(3): attempt is 0-based, outs[attempt + 1] its outcome.
\* An attempt that raises is retried, except the last, whose exception is
\* raised again.  After a construction the log has what the connectivity
\* check saw: "noio" (hasattr(self.face, 'io') false), "connected" or
\* "unconnected" (io.connected after the wait).
RECURSIVE SessionAttempts(_, _, _)

\* Variant: a session confirmed connected does not end the loop.
SessionAttempts_noStop(s, attempt, outs) ==
    IF attempt >= MaxAttempts THEN Returns(s, RetTrue)
    ELSE LET o == outs[attempt + 1] IN
         CASE o = "raise" ->
                IF attempt < LastAttempt
                THEN SessionAttempts(Log(s, "RobotFace!"), attempt + 1, outs)
                ELSE Returns(Log(s, "RobotFace!"), Raise)
           [] o = "noio" ->
                Returns([Log(Log(s, "RobotFace"), "noio") EXCEPT !.face = "NoIO"],
                        RetTrue)
           [] o = "connected" ->
                SessionAttempts([Log(Log(s, "RobotFace"), "connected") EXCEPT
                                    !.face = "Connected"],
                                attempt + 1, outs)
           [] OTHER ->
                SessionAttempts([Log(Log(s, "RobotFace"), "unconnected") EXCEPT
                                    !.face = "Disconnected"],
                                attempt + 1, outs)

SessionAttempts(s, attempt, outs) ==
    IF attempt >= MaxAttempts THEN Returns(s, RetTrue)
    ELSE LET o == outs[attempt + 1] IN
         CASE o = "raise" ->
                IF attempt < LastAttempt
                THEN SessionAttempts(Log(s, "RobotFace!"), attempt + 1, outs)
                ELSE Returns(Log(s, "RobotFace!"), Raise)
           [] o = "noio" ->
                Returns([Log(Log(s, "RobotFace"), "noio") EXCEPT !.face = "NoIO"],
                        RetTrue)
           [] o = "connected" ->
                Returns([Log(Log(s, "RobotFace"), "connected") EXCEPT
                            !.face = "Connected"], RetTrue)
           [] OTHER ->
                SessionAttempts([Log(Log(s, "RobotFace"), "unconnected") EXCEPT
                                    !.face = "Disconnected"],
                                attempt + 1, outs)

\* Variant: no handler around the attempts.
InitCatch_none(r) == r

\* except Exception as e: ... return True, around the attempts.
InitCatch(r) == IF r.ret = Raise THEN Returns(r, RetTrue) ELSE r

\* Variant: the session attempts are made although the server did not start.
initialize_face_ignoreStart(s, voice_id, method, in) ==
    LET s1 == LookupVoice(UpdateConfig(s, voice_id, method), voice_id, in.lookup) IN
    IF ~PYLIPS_AVAILABLE THEN Returns(s1, RetTrue)
    ELSE IF ~s1.running
         THEN InitCatch(SessionAttempts(start_face_server(s1, in.start), 0, in.attempts))
         ELSE InitCatch(SessionAttempts(s1, 0, in.attempts))

\* in: [lookup, start, attempts]
initialize_face(s, voice_id, method, in) ==
    LET s1 == LookupVoice(UpdateConfig(s, voice_id, method), voice_id, in.lookup) IN
    IF ~PYLIPS_AVAILABLE THEN Returns(s1, RetTrue)
    ELSE IF ~s1.running
         THEN LET s2 == start_face_server(s1, in.start) IN
              IF s2.ret # RetTrue THEN Returns(s2, RetTrue)
              ELSE InitCatch(SessionAttempts(s2, 0, in.attempts))
         ELSE InitCatch(SessionAttempts(s1, 0, in.attempts))

\* POST /start with a readable body: start_face_server(), then, when it
\* returned True, initialize_face(voice_id, tts_method) and the answer
\* success (RetTrue); otherwise the answer 500 (RetFalse).
\* in: [start, init]
start_service(s, voice_id, method, in) ==
    LET s1 == start_face_server(s, in.start) IN
    IF s1.ret = RetTrue
    THEN Returns(initialize_face(s1, voice_id, method, in.init), RetTrue)
    ELSE Returns(s1, RetFalse)

(***************************************************************************)
(* speak                                                                   *)
(***************************************************************************)
\* in: [say, sapi, fb]: what each backend does if called, "ok" or "raise";
\* on the shared pyttsx3 engine say may raise ("raise") or, after say
\* returned, runAndWait ("raise_run").
BackendOutcomes == {"ok", "raise"}
FallbackOutcomes == {"ok", "raise", "raise_run"}
SpeakInputs == [say : BackendOutcomes, sapi : BackendOutcomes, fb : FallbackOutcomes]

\* Variant: a session whose say raised is dropped.
SpeakFace_dropSession(s, in) ==
    IF s.face # None
    THEN IF in.say = "ok"
         THEN Returns(Log(s, "face.say"), RetTrue)
         ELSE Returns([Log(s, "face.say!") EXCEPT !.face = None], RetNone)
    ELSE Returns(s, RetNone)

\* if self.face: self.face.say(text, wait=wait)
SpeakFace(s, in) ==
    IF s.face # None
    THEN Returns(Log(s, IF in.say = "ok" THEN "face.say" ELSE "face.say!"),
                 IF in.say = "ok" THEN RetTrue ELSE RetNone)
    ELSE Returns(s, RetNone)

\* Variant: success is reported although Speak raised.
SpeakSapi_swallow(s, wait, in) ==
    IF sapi_tts # None
    THEN Returns(Log(s, IF in.sapi = "ok" THEN "sapi.Speak" ELSE "sapi.Speak!"), RetTrue)
    ELSE Returns(s, RetNone)

\* if self.sapi_tts: Speak(text) or Speak(text, 1)
SpeakSapi(s, wait, in) ==
    IF sapi_tts # None
    THEN IF in.sapi = "ok"
         THEN Returns(Log(s, IF wait THEN "sapi.Speak" ELSE "sapi.SpeakAsync"), RetTrue)
         ELSE Returns(Log(s, "sapi.Speak!"), RetNone)
    ELSE Returns(s, RetNone)

\* if self.fallback_tts: under tts_lock say + runAndWait on the shared engine
\* (wait), or a daemon thread with an engine of its own (not wait).
SpeakFallback(s, wait, in) ==
    IF fallback_tts # None
    THEN IF wait
         THEN CASE in.fb = "ok" ->
                    Returns(Log(Log(s, "fallback.say"), "fallback.runAndWait"), RetTrue)
                [] in.fb = "raise" -> Returns(Log(s, "fallback.say!"), RetNone)
                [] OTHER ->
                    Returns(Log(Log(s, "fallback.say"), "fallback.runAndWait!"), RetNone)
         ELSE IF in.fb = "ok"
              THEN Returns(Log(s, "Thread.start"), RetTrue)
              ELSE Returns(Log(s, "Thread.start!"), RetNone)
    ELSE Returns(s, RetNone)

\* The backends in the order of the method's three if-blocks; RetNone from a
\* block means control falls out of it to the next.
speak(s, wait, in) ==
    LET a == SpeakFace(s, in) IN
    IF a.ret = RetTrue THEN a
    ELSE LET b == SpeakSapi(a, wait, in) IN
         IF b.ret = RetTrue THEN b
         ELSE LET c == SpeakFallback(b, wait, in) IN
              IF c.ret = RetTrue THEN c
              ELSE Returns(c, RetFalse)

(***************************************************************************)
(* set_expression, look_at, stop_speech                                    *)
(***************************************************************************)
\* Variant: the log-only acknowledgment is given whether or not PyLips is
\* importable.
ExpressionFallback_always(s) == Returns(s, RetTrue)

\* Lines after the face block: log-only mode when PyLips is not importable.
ExpressionFallback(s) ==
    IF ~PYLIPS_AVAILABLE THEN Returns(s, RetTrue) ELSE Returns(s, RetFalse)

\* Variant: the name is not looked up in the table.
KnownExpression_any(name) == TRUE

\* if expression_name in expressions
KnownExpression(name) == name \in expressions

\* in: "ok" or "raise", what face.express does if called.
set_expression(s, name, in) ==
    IF s.face # None
    THEN IF KnownExpression(name)
         THEN IF in = "ok"
              THEN Returns(Log(s, "face.express"), RetTrue)
              ELSE ExpressionFallback(Log(s, "face.express!"))
         ELSE Returns(s, RetFalse)
    ELSE ExpressionFallback(s)

look_at(s, in) ==
    IF s.face = None THEN Returns(s, RetFalse)
    ELSE IF in = "ok"
         THEN Returns(Log(s, "face.look"), RetTrue)
         ELSE Returns(Log(s, "face.look!"), RetFalse)

\* Variant: the session's error is not reported.
stop_speech_optimistic(s, in) ==
    IF s.face = None THEN Returns(s, RetFalse)
    ELSE Returns(Log(s, IF in = "ok" THEN "face.stop_speech" ELSE "face.stop_speech!"),
                 RetTrue)

stop_speech(s, in) ==
    IF s.face = None THEN Returns(s, RetFalse)
    ELSE IF in = "ok"
         THEN Returns(Log(s, "face.stop_speech"), RetTrue)
         ELSE Returns(Log(s, "face.stop_speech!"), RetFalse)

(***************************************************************************)
(* set_appearance                                                          *)
(***************************************************************************)
\* in: [connect, apply1, init, apply2]
\*   connect : io.connect() leaves the session connected, or returns with it
\*             still disconnected, or raises
\*   apply1  : the first face.set_appearance: "ok", or raising an error whose
\*             message names a connection problem ("conn") or not ("other")
\*   init    : the inputs of the nested initialize_face
\*   apply2  : the second face.set_appearance: "ok" or "raise"
ConnectOutcomes == {"connected", "unconnected", "raise"}
ApplyOutcomes == {"ok", "conn", "other"}

\* Variant: the re-initialization passes the constructor's defaults instead
\* of the current configuration.
Reinitialize_defaults(s, in) ==
    LET s1 == initialize_face(Log(s, "initialize_face"), None, "system", in.init) IN
    IF s1.face # None
    THEN IF in.apply2 = "ok"
         THEN Returns(Log(s1, "face.set_appearance"), RetTrue)
         ELSE Returns(Log(s1, "face.set_appearance!"), RetFalse)
    ELSE Returns(s1, RetFalse)

\* The except-branch for a connection error: initialize_face with the current
\* configuration, then one more apply if a session is held.
Reinitialize(s, in) ==
    LET s1 == initialize_face(Log(s, "initialize_face"), s.voice, s.method, in.init) IN
    IF s1.face # None
    THEN IF in.apply2 = "ok"
         THEN Returns(Log(s1, "face.set_appearance"), RetTrue)
         ELSE Returns(Log(s1, "face.set_appearance!"), RetFalse)
    ELSE Returns(s1, RetFalse)

\* Variant: every error of the first apply is treated as a connection error.
Apply_anyError(s, in) ==
    CASE in.apply1 = "ok" -> Returns(Log(s, "face.set_appearance"), RetTrue)
      [] in.apply1 = "conn" -> Reinitialize(Log(s, "face.set_appearance!conn"), in)
      [] OTHER -> Reinitialize(Log(s, "face.set_appearance!"), in)

\* self.face.set_appearance(appearance_config) and the except-branch.
Apply(s, in) ==
    CASE in.apply1 = "ok" -> Returns(Log(s, "face.set_appearance"), RetTrue)
      [] in.apply1 = "conn" -> Reinitialize(Log(s, "face.set_appearance!conn"), in)
      [] OTHER -> Returns(Log(s, "face.set_appearance!"), RetFalse)

\* Variant: a failed io.connect() does not end the call.
Reconnect_fallthrough(s, in) ==
    IF HasIO(s.face) /\ ~IsConnected(s.face)
    THEN CASE in.connect = "connected" ->
                Returns([Log(s, "io.connect") EXCEPT !.face = "Connected"], RetNone)
           [] in.connect = "raise" -> Returns(Log(s, "io.connect!"), RetNone)
           [] OTHER -> Returns(Log(s, "io.connect"), RetNone)
    ELSE Returns(s, RetNone)

\* The connectivity check before the apply.
Reconnect(s, in) ==
    IF HasIO(s.face) /\ ~IsConnected(s.face)
    THEN CASE in.connect = "raise" -> Returns(Log(s, "io.connect!"), RetFalse)
           [] in.connect = "connected" ->
                Returns([Log(s, "io.connect") EXCEPT !.face = "Connected"], RetNone)
           [] OTHER -> Returns(Log(s, "io.connect"), RetNone)
    ELSE Returns(s, RetNone)

set_appearance(s, in) ==
    IF s.face = None THEN Returns(s, RetFalse)
    ELSE LET s1 == Reconnect(s, in) IN
         IF s1.ret = RetFalse THEN s1 ELSE Apply(s1, in)

(***************************************************************************)
(* __init__                                                                *)
(***************************************************************************)
\* if WIN32_SAPI_AVAILABLE: Dispatch("SAPI.SpVoice"), None when it raises.
InitSapi(win32, dispatch) ==
    IF win32 /\ dispatch = "ok" THEN Engine ELSE None

\* Variant: the shared pyttsx3 engine is built whether or not SAPI is there.
InitFallback_always(pyttsx3, sapi, init) ==
    IF pyttsx3 /\ init = "ok" THEN Engine ELSE None

\* if PYTTSX3_AVAILABLE and not self.sapi_tts: pyttsx3.init(), None when it raises.
InitFallback(pyttsx3, sapi, init) ==
    IF pyttsx3 /\ sapi = None /\ init = "ok" THEN Engine ELSE None

NoCall ==
    [op |-> "none", voice |-> None, method |-> None, name |-> None, wait |-> FALSE,
     ret |-> RetNone, log |-> <<>>]

NoArgs == [voice |-> None, method |-> None, name |-> None, wait |-> FALSE]

ThreadsIdle ==
    /\ tpc = [t \in Threads |-> "idle"]
    /\ twait = [t \in Threads |-> FALSE]
    /\ tret = [t \in Threads |-> RetNone]
    /\ calls = 0
    /\ daemons = 0
    /\ engine = <<>>
    /\ sharing = 0

\* No call has been made step by step.
NoResult == "-"
StepsIdle ==
    /\ stk = <<>>
    /\ res = NoResult

\* The module flags and the engines __init__ builds.
InitEnv ==
    /\ PYLIPS_AVAILABLE \in BOOLEAN
    /\ PYTTSX3_AVAILABLE \in BOOLEAN
    /\ \E win32 \in BOOLEAN, dispatch \in {"ok", "raise"} :
            sapi_tts = InitSapi(win32, dispatch)
    /\ \E init \in {"ok", "raise"} :
            fallback_tts = InitFallback(PYTTSX3_AVAILABLE, sapi_tts, init)
    /\ tts_lock = NoThread

\* The fields __init__ sets.
InitFields ==
    /\ face = None
    /\ face_server_process = None
    /\ face_server_running = FALSE
    /\ current_voice_id = None
    /\ tts_method = "system"

Init ==
    /\ InitEnv
    /\ InitFields
    /\ orphans = 0
    /\ pc = "idle"
    /\ call = NoCall
    /\ ThreadsIdle
    /\ StepsIdle

(***************************************************************************)
(* Spec: one call at a time                                                *)
(***************************************************************************)
\* The call returns: the fields take the values the method left, and `call`
\* records it.
Commit(op, args, r) ==
    /\ r.orphans <= MaxOrphans
    /\ face' = r.face
    /\ face_server_process' = r.proc
    /\ face_server_running' = r.running
    /\ current_voice_id' = r.voice
    /\ tts_method' = r.method
    /\ orphans' = r.orphans
    /\ call' = [op |-> op, voice |-> args.voice, method |-> args.method,
                name |-> args.name, wait |-> args.wait, ret |-> r.ret, log |-> r.log]
    /\ pc' = "done"
    /\ UNCHANGED <<envVars, tts_lock, concVars, stepVars>>

\* The inputs a call can observe in state s (the others are fixed).
StartInputsIn(s) == IF s.running THEN {NoStart} ELSE StartInputs

InitInputsIn(s, voice_id) ==
    LET lookups == IF sapi_tts # None /\ voice_id # None THEN LookupInputs ELSE {"ok"}
        starts == IF PYLIPS_AVAILABLE THEN StartInputsIn(s) ELSE {NoStart}
        attempts(st) ==
            IF PYLIPS_AVAILABLE /\ start_face_server(s, st).ret = RetTrue
            THEN AttemptInputs ELSE {NoAttempts}
    IN  UNION {{[lookup |-> l, start |-> st, attempts |-> a] :
                    l \in lookups, a \in attempts(st)} : st \in starts}

NoInit == [lookup |-> "ok", start |-> NoStart, attempts |-> NoAttempts]

StartServiceInputsIn(s, voice_id) ==
    UNION {{[start |-> st, init |-> i] :
                i \in LET s1 == start_face_server(s, st) IN
                      IF s1.ret = RetTrue THEN InitInputsIn(s1, voice_id) ELSE {NoInit}} :
            st \in StartInputsIn(s)}

AppearanceInputsIn(s) ==
    LET connects == IF HasIO(s.face) /\ ~IsConnected(s.face)
                    THEN ConnectOutcomes ELSE {"connected"}
        inits(c, a) ==
            IF c # "raise" /\ a = "conn"
            THEN InitInputsIn(Reconnect(s, [connect |-> c]), s.voice)
            ELSE {NoInit}
        applies2(c, a) == IF c # "raise" /\ a = "conn" THEN BackendOutcomes ELSE {"ok"}
    IN  IF s.face = None
        THEN {[connect |-> "connected", apply1 |-> "ok", init |-> NoInit, apply2 |-> "ok"]}
        ELSE UNION {UNION {{[connect |-> c, apply1 |-> a, init |-> i, apply2 |-> b] :
                                i \in inits(c, a), b \in applies2(c, a)} :
                            a \in IF c = "raise" THEN {"ok"} ELSE ApplyOutcomes} :
                    c \in connects}

StartFaceServer ==
    /\ pc = "idle"
    /\ \E in \in StartInputsIn(Cur) :
            Commit("start_face_server", NoArgs, start_face_server(Cur, in))

StartService ==
    /\ pc = "idle"
    /\ \E voice_id \in VoiceIds, method \in TtsMethods :
        \E in \in StartServiceInputsIn(Cur, voice_id) :
            Commit("start_service", [NoArgs EXCEPT !.voice = voice_id, !.method = method],
                   start_service(Cur, voice_id, method, in))

StopFaceServer ==
    /\ pc = "idle"
    /\ \E in \in TerminateInputs :
            Commit("stop_face_server", NoArgs, stop_face_server(Cur, in))

StopService ==
    /\ pc = "idle"
    /\ \E in \in TerminateInputs :
            Commit("stop_service", NoArgs, stop_service(Cur, in))

InitializeFace ==
    /\ pc = "idle"
    /\ \E voice_id \in VoiceIds, method \in TtsMethods :
        \E in \in InitInputsIn(Cur, voice_id) :
            Commit("initialize_face", [NoArgs EXCEPT !.voice = voice_id, !.method = method],
                   initialize_face(Cur, voice_id, method, in))

Speak ==
    /\ pc = "idle"
    /\ \E wait \in BOOLEAN, in \in SpeakInputs :
            Commit("speak", [NoArgs EXCEPT !.wait = wait], speak(Cur, wait, in))

SetExpression ==
    /\ pc = "idle"
    /\ \E name \in ExpressionInputs, in \in BackendOutcomes :
            Commit("set_expression", [NoArgs EXCEPT !.name = name],
                   set_expression(Cur, name, in))

LookAt ==
    /\ pc = "idle"
    /\ \E in \in BackendOutcomes : Commit("look_at", NoArgs, look_at(Cur, in))

StopSpeech ==
    /\ pc = "idle"
    /\ \E in \in BackendOutcomes : Commit("stop_speech", NoArgs, stop_speech(Cur, in))

SetAppearance ==
    /\ pc = "idle"
    /\ \E in \in AppearanceInputsIn(Cur) :
            Commit("set_appearance", NoArgs, set_appearance(Cur, in))

\* The caller has the result; the next call may start.
Return ==
    /\ pc = "done"
    /\ pc' = "idle"
    /\ call' = NoCall
    /\ UNCHANGED <<svcVars, envVars, tts_lock, concVars, stepVars>>

\* Between calls: the spawned process exits by itself.
ProcessExits ==
    /\ pc = "idle"
    /\ face_server_process = "Alive"
    /\ face_server_process' = "Exited"
    /\ UNCHANGED <<face, face_server_running, current_voice_id, tts_method, orphans,
                   envVars, tts_lock, pc, call, concVars, stepVars>>

\* Between calls: an unreferenced spawned process exits by itself.
OrphanExits ==
    /\ pc = "idle"
    /\ orphans > 0
    /\ orphans' = orphans - 1
    /\ UNCHANGED <<face, face_server_process, face_server_running, current_voice_id,
                   tts_method, envVars, tts_lock, pc, call, concVars, stepVars>>

\* Between calls: the session's Socket.IO connection drops, or comes back.
SessionDrops ==
    /\ pc = "idle"
    /\ face = "Connected"
    /\ face' = "Disconnected"
    /\ UNCHANGED <<face_server_process, face_server_running, current_voice_id,
                   tts_method, orphans, envVars, tts_lock, pc, call, concVars, stepVars>>

SessionReconnects ==
    /\ pc = "idle"
    /\ face = "Disconnected"
    /\ face' = "Connected"
    /\ UNCHANGED <<face_server_process, face_server_running, current_voice_id,
                   tts_method, orphans, envVars, tts_lock, pc, call, concVars, stepVars>>

Next ==
    \/ StartFaceServer
    \/ StartService
    \/ StopFaceServer
    \/ StopService
    \/ InitializeFace
    \/ Speak
    \/ SetExpression
    \/ LookAt
    \/ StopSpeech
    \/ SetAppearance
    \/ Return
    \/ ProcessExits
    \/ OrphanExits
    \/ SessionDrops
    \/ SessionReconnects

Spec == Init /\ [][Next]_vars

(***************************************************************************)
(* SpecConc: threads inside speak()                                        *)
(*                                                                         *)
(* The coordinator's fields do not change while the threads speak; the     *)
(* threads start from the state after __init__, or from the state of Spec  *)
(* after initialize_face() found port 8000 open and connected a session.   *)
(* A thread goes "idle" -> "face" -> "sapi" -> "fallback" and, for         *)
(* wait=True on the shared engine, -> "acquire" -> "say" -> "run" ->       *)
(* "release" -> "idle".                                                    *)
(***************************************************************************)
SessionHeld ==
    /\ PYLIPS_AVAILABLE
    /\ face = "Connected"
    /\ face_server_process = None
    /\ face_server_running = TRUE
    /\ current_voice_id = None
    /\ tts_method = "system"

InitConc ==
    /\ InitEnv
    /\ (InitFields \/ SessionHeld)
    /\ orphans = 0
    /\ pc = "idle"
    /\ call = NoCall
    /\ ThreadsIdle
    /\ StepsIdle

\* Thread t is at position p and moves to q.
Goto(t, p, q) ==
    /\ tpc[t] = p
    /\ tpc' = [tpc EXCEPT ![t] = q]

\* Thread t's speak() returns r.
Finish(t, p, r) ==
    /\ Goto(t, p, "idle")
    /\ tret' = [tret EXCEPT ![t] = r]

frame == <<svcVars, envVars, pc, call, stepVars>>

\* A request thread enters speak(text, wait).
SpeakBegin(t) ==
    /\ calls < MaxCalls
    /\ Goto(t, "idle", "face")
    /\ \E wait \in BOOLEAN : twait' = [twait EXCEPT ![t] = wait]
    /\ calls' = calls + 1
    /\ tret' = [tret EXCEPT ![t] = RetNone]
    /\ UNCHANGED <<frame, sharing, tts_lock, daemons, engine>>

\* The face block of speak().
SpeakFaceStep(t) ==
    /\ \E in \in {i \in SpeakInputs : i.sapi = "ok" /\ i.fb = "ok"} :
            IF SpeakFace(Cur, in).ret = RetTrue
            THEN Finish(t, "face", RetTrue)
            ELSE Goto(t, "face", "sapi") /\ UNCHANGED tret
    /\ UNCHANGED <<frame, sharing, tts_lock, twait, calls, daemons, engine>>

\* The SAPI block of speak().
SpeakSapiStep(t) ==
    /\ \E in \in {i \in SpeakInputs : i.say = "ok" /\ i.fb = "ok"} :
            IF SpeakSapi(Cur, twait[t], in).ret = RetTrue
            THEN Finish(t, "sapi", RetTrue)
            ELSE Goto(t, "sapi", "fallback") /\ UNCHANGED tret
    /\ UNCHANGED <<frame, sharing, tts_lock, twait, calls, daemons, engine>>

\* The pyttsx3 block with no shared engine, or with wait false: no engine is
\* there, or the daemon thread is started (or Thread.start raises).
SpeakFallbackAsync(t) ==
    /\ fallback_tts = None \/ ~twait[t]
    /\ \E in \in {i \in SpeakInputs : i.say = "ok" /\ i.sapi = "ok" /\ i.fb # "raise_run"} :
        LET r == SpeakFallback(Cur, FALSE, in) IN
        /\ Finish(t, "fallback", IF r.ret = RetTrue THEN RetTrue ELSE RetFalse)
        /\ daemons' = IF Has(r.log, "Thread.start") THEN daemons + 1 ELSE daemons
    /\ UNCHANGED <<frame, sharing, tts_lock, twait, calls, engine>>

\* The pyttsx3 block with wait true: on to `with self.tts_lock`.
SpeakFallbackSync(t) ==
    /\ fallback_tts # None /\ twait[t]
    /\ Goto(t, "fallback", "acquire")
    /\ UNCHANGED <<frame, sharing, tts_lock, twait, tret, calls, daemons, engine>>

\* Variant: the block is entered without the lock being free.
LockFree_unguarded(t) == TRUE

\* with self.tts_lock: entered when the lock is free.
LockFree(t) == tts_lock = NoThread

Acquire(t) ==
    /\ LockFree(t)
    /\ Goto(t, "acquire", "say")
    /\ tts_lock' = t
    /\ UNCHANGED <<frame, sharing, twait, tret, calls, daemons, engine>>

\* self.fallback_tts.say(text): on the shared engine; an error leaves the
\* with-block.
Say(t) ==
    /\ \E o \in BackendOutcomes :
        /\ engine' = Append(engine, [thread |-> t, op |-> "say", ok |-> o = "ok"])
        /\ Goto(t, "say", IF o = "ok" THEN "run" ELSE "release")
        /\ tret' = [tret EXCEPT ![t] = IF o = "ok" THEN RetNone ELSE RetFalse]
    /\ UNCHANGED <<frame, sharing, tts_lock, twait, calls, daemons>>

\* self.fallback_tts.runAndWait()
RunAndWait(t) ==
    /\ \E o \in BackendOutcomes :
        /\ engine' = Append(engine, [thread |-> t, op |-> "runAndWait", ok |-> o = "ok"])
        /\ Goto(t, "run", "release")
        /\ tret' = [tret EXCEPT ![t] = IF o = "ok" THEN RetTrue ELSE RetFalse]
    /\ UNCHANGED <<frame, sharing, tts_lock, twait, calls, daemons>>

\* The with-block is left: the lock is released and speak() returns.
Release(t) ==
    /\ Goto(t, "release", "idle")
    /\ tts_lock' = NoThread
    /\ UNCHANGED <<frame, sharing, twait, tret, calls, daemons, engine>>

\* async_tts = pyttsx3.init() in a speak_async thread: the call raises, or
\* returns an engine of the thread's own, or returns the engine it has
\* already built for this driver, which is self.fallback_tts (the source does
\* not decide which engine the library hands out).  With an engine of its
\* own, or after a raise, the thread touches nothing shared again and is not
\* followed further; the raise is logged by the thread.
DaemonEngines == {"own", "shared", "raise"}

DaemonInit(o) ==
    /\ daemons > 0
    /\ daemons' = daemons - 1
    /\ sharing' = IF o = "shared" THEN sharing + 1 ELSE sharing
    /\ UNCHANGED <<frame, tts_lock, tpc, twait, tret, calls, engine>>

\* A speak_async thread on the shared engine ends: say and runAndWait
\* returned, or one of them raised and the error was logged.
DaemonEnds ==
    /\ sharing > 0
    /\ sharing' = sharing - 1
    /\ UNCHANGED <<frame, tts_lock, tpc, twait, tret, calls, daemons, engine>>

NextConc ==
    \/ \E t \in Threads :
        \/ SpeakBegin(t)
        \/ SpeakFaceStep(t)
        \/ SpeakSapiStep(t)
        \/ SpeakFallbackAsync(t)
        \/ SpeakFallbackSync(t)
        \/ Acquire(t)
        \/ Say(t)
        \/ RunAndWait(t)
        \/ Release(t)
    \/ \E o \in DaemonEngines : DaemonInit(o)
    \/ DaemonEnds

SpecConc == InitConc /\ [][NextConc]_vars

(***************************************************************************)
(* SpecLive: calls statement by statement                                  *)
(*                                                                         *)
(* A behaviour of SpecLive is either one of request threads in synchronous *)
(* speak() calls, any number of them, one after the other in each thread   *)
(* (the steps of SpecConc without the count of calls and the record of the *)
(* engine), or one of a caller whose calls of start_face_server,           *)
(* stop_face_server, initialize_face and set_appearance run one statement  *)
(* group at a time: a step is one collaborator call (or test) that returns *)
(* or raises.  stk holds the frames of the call, the innermost last; a     *)
(* frame is [at, i]: the position in its method and the loop index.        *)
(* `orphans` is kept by Spec only.                                         *)
(***************************************************************************)
Top == stk[Len(stk)]
At(p) == stk # <<>> /\ Top.at = p
Frame(p, i) == [at |-> p, i |-> i]

\* Control moves to position p of the same method, with loop index i.
Jump(p, i) ==
    /\ stk' = [stk EXCEPT ![Len(stk)] = Frame(p, i)]
    /\ UNCHANGED res

\* The innermost method returns r to its caller.
Ret(r) ==
    /\ stk' = SubSeq(stk, 1, Len(stk) - 1)
    /\ res' = r

\* The innermost method calls another method and goes on at p afterwards.
Enter(p, callee) ==
    /\ stk' = Append([stk EXCEPT ![Len(stk)] = Frame(p, Top.i)], Frame(callee, 0))
    /\ UNCHANGED res

\* What no step of a call changes.
rest == <<envVars, tts_lock, orphans, pc, call, concVars>>
config == <<current_voice_id, tts_method>>

\* Variant: the loop index does not advance.
NextIter_stuck(i) == i

\* for i in range(...): the next value of the loop index.
NextIter(i) == i + 1

\* The caller calls a method.
CallStart ==
    /\ stk = <<>>
    /\ stk' = <<Frame("start", 0)>>
    /\ UNCHANGED <<res, svcVars, rest>>

CallStop ==
    /\ stk = <<>>
    /\ stk' = <<Frame("stop", 0)>>
    /\ UNCHANGED <<res, svcVars, rest>>

\* initialize_face(voice_id, tts_method) is entered and stores its arguments.
CallInit ==
    /\ stk = <<>>
    /\ stk' = <<Frame("init", 0)>>
    /\ \E voice_id \in VoiceIds, method \in TtsMethods :
            /\ current_voice_id' = voice_id
            /\ tts_method' = method
    /\ UNCHANGED <<res, face, face_server_process, face_server_running, rest>>

CallAppearance ==
    /\ stk = <<>>
    /\ stk' = <<Frame("app", 0)>>
    /\ UNCHANGED <<res, svcVars, rest>>

\* start_face_server: if self.face_server_running: return True
StepStart ==
    /\ At("start")
    /\ IF face_server_running THEN Ret(RetTrue) ELSE Jump("probe0", 0)
    /\ UNCHANGED <<svcVars, rest>>

\* The first connect_ex on port 8000.
StepProbe0 ==
    /\ At("probe0")
    /\ \E o \in {"open", "closed", "raise"} :
        CASE o = "open" -> face_server_running' = TRUE /\ Ret(RetTrue)
          [] o = "raise" -> UNCHANGED face_server_running /\ Ret(RetFalse)
          [] OTHER -> UNCHANGED face_server_running /\ Jump("popen", 0)
    /\ UNCHANGED <<face, face_server_process, config, rest>>

\* subprocess.Popen(...)
StepPopen ==
    /\ At("popen")
    /\ \E o \in BackendOutcomes :
        IF o = "ok"
        THEN face_server_process' = "Alive" /\ Jump("poll", 0)
        ELSE UNCHANGED face_server_process /\ Ret(RetFalse)
    /\ UNCHANGED <<face, face_server_running, config, rest>>

\* One iteration of the poll loop up to its exit check: sleep, poll().
StepPoll ==
    /\ At("poll")
    /\ \E exited \in BOOLEAN :
        IF exited
        THEN /\ face_server_process' = "Exited"
             /\ face_server_running' = FALSE
             /\ Ret(RetFalse)
        ELSE /\ UNCHANGED <<face_server_process, face_server_running>>
             /\ Jump("probe", NextIter(Top.i))
    /\ UNCHANGED <<face, config, rest>>

\* The port probe of the iteration; the loop ends after iteration PollLimit.
StepProbe ==
    /\ At("probe")
    /\ \E o \in {"open", "closed", "raise"} :
        CASE o = "open" -> face_server_running' = TRUE /\ Ret(RetTrue)
          [] o = "raise" -> UNCHANGED face_server_running /\ Ret(RetFalse)
          [] OTHER -> /\ UNCHANGED face_server_running
                      /\ IF Top.i < PollLimit THEN Jump("poll", Top.i) ELSE Jump("after", Top.i)
    /\ UNCHANGED <<face, face_server_process, config, rest>>

\* After the loop: poll(), communicate(timeout=1), return False.
StepAfter ==
    /\ At("after")
    /\ \E alive \in BOOLEAN :
            face_server_process' = IF alive THEN face_server_process ELSE "Exited"
    /\ Ret(RetFalse)
    /\ UNCHANGED <<face, face_server_running, config, rest>>

\* stop_face_server: terminate() returns and the fields are cleared, or it
\* raises and the exception leaves the method.
StepStop ==
    /\ At("stop")
    /\ IF face_server_process # None
       THEN \E o \in TerminateInputs :
                IF o = "ok"
                THEN /\ face_server_process' = None
                     /\ face_server_running' = FALSE
                     /\ Ret(RetNone)
                ELSE /\ UNCHANGED <<face_server_process, face_server_running>>
                     /\ Ret(Raise)
       ELSE /\ UNCHANGED <<face_server_process, face_server_running>>
            /\ Ret(RetNone)
    /\ UNCHANGED <<face, config, rest>>

\* initialize_face after the configuration: the voice lookup, the RobotFace
\* test and the running test.
StepInit ==
    /\ At("init")
    /\ IF ~PYLIPS_AVAILABLE THEN Ret(RetTrue)
       ELSE IF ~face_server_running THEN Enter("init:started", "start")
            ELSE Jump("attempt", 0)
    /\ UNCHANGED <<svcVars, rest>>

\* if not self.start_face_server(): return True
StepInitStarted ==
    /\ At("init:started")
    /\ IF res = RetTrue THEN Jump("attempt", 0) ELSE Ret(RetTrue)
    /\ UNCHANGED <<svcVars, rest>>

\* One session attempt, Top.i its 0-based index.
StepAttempt ==
    /\ At("attempt")
    /\ \E o \in AttemptOutcomes :
        CASE o = "raise" ->
                /\ UNCHANGED face
                /\ IF Top.i < LastAttempt
                   THEN Jump("attempt", NextIter(Top.i))
                   ELSE Ret(RetTrue)
          [] o = "noio" -> face' = "NoIO" /\ Ret(RetTrue)
          [] o = "connected" -> face' = "Connected" /\ Ret(RetTrue)
          [] OTHER ->
                /\ face' = "Disconnected"
                /\ IF NextIter(Top.i) < MaxAttempts
                   THEN Jump("attempt", NextIter(Top.i))
                   ELSE Ret(RetTrue)
    /\ UNCHANGED <<face_server_process, face_server_running, config, rest>>

\* set_appearance: the session test and the connectivity test.
StepAppearance ==
    /\ At("app")
    /\ IF face = None THEN Ret(RetFalse)
       ELSE IF HasIO(face) /\ ~IsConnected(face) THEN Jump("app:connect", 0)
            ELSE Jump("app:apply1", 0)
    /\ UNCHANGED <<svcVars, rest>>

\* self.face.io.connect()
StepConnect ==
    /\ At("app:connect")
    /\ \E o \in ConnectOutcomes :
        CASE o = "raise" -> UNCHANGED face /\ Ret(RetFalse)
          [] o = "connected" -> face' = "Connected" /\ Jump("app:apply1", 0)
          [] OTHER -> UNCHANGED face /\ Jump("app:apply1", 0)
    /\ UNCHANGED <<face_server_process, face_server_running, config, rest>>

\* The first self.face.set_appearance(...); on a connection error
\* initialize_face(self.current_voice_id, self.tts_method).
StepApply1 ==
    /\ At("app:apply1")
    /\ \E o \in ApplyOutcomes :
        CASE o = "ok" -> Ret(RetTrue)
          [] o = "conn" -> Enter("app:reinit", "init")
          [] OTHER -> Ret(RetFalse)
    /\ UNCHANGED <<svcVars, rest>>

\* if self.face: after the re-initialization.
StepReinit ==
    /\ At("app:reinit")
    /\ IF face # None THEN Jump("app:apply2", 0) ELSE Ret(RetFalse)
    /\ UNCHANGED <<svcVars, rest>>

\* The second self.face.set_appearance(...)
StepApply2 ==
    /\ At("app:apply2")
    /\ \E o \in BackendOutcomes : Ret(IF o = "ok" THEN RetTrue ELSE RetFalse)
    /\ UNCHANGED <<svcVars, rest>>

\* The caller makes a call.
Calls == CallStart \/ CallStop \/ CallInit \/ CallAppearance

\* The call in progress takes a step.
Steps ==
    \/ StepStart
    \/ StepProbe0
    \/ StepPopen
    \/ StepPoll
    \/ StepProbe
    \/ StepAfter
    \/ StepStop
    \/ StepInit
    \/ StepInitStarted
    \/ StepAttempt
    \/ StepAppearance
    \/ StepConnect
    \/ StepApply1
    \/ StepReinit
    \/ StepApply2

\* A request thread enters speak(text, wait=True).
LiveBegin(t) ==
    /\ Goto(t, "idle", "face")
    /\ twait' = [twait EXCEPT ![t] = TRUE]
    /\ tret' = [tret EXCEPT ![t] = RetNone]
    /\ UNCHANGED <<frame, sharing, tts_lock, calls, daemons, engine>>

\* self.fallback_tts.say(text) inside the with-block.
LiveSay(t) ==
    /\ \E o \in BackendOutcomes :
        /\ Goto(t, "say", IF o = "ok" THEN "run" ELSE "release")
        /\ tret' = [tret EXCEPT ![t] = IF o = "ok" THEN RetNone ELSE RetFalse]
    /\ UNCHANGED <<frame, sharing, tts_lock, twait, calls, daemons, engine>>

\* self.fallback_tts.runAndWait() inside the with-block.
LiveRunAndWait(t) ==
    /\ \E o \in BackendOutcomes :
        /\ Goto(t, "run", "release")
        /\ tret' = [tret EXCEPT ![t] = IF o = "ok" THEN RetTrue ELSE RetFalse]
    /\ UNCHANGED <<frame, sharing, tts_lock, twait, calls, daemons, engine>>

\* A request thread inside speak() goes on, except into the with-block.
Advance(t) ==
    /\ tpc[t] \notin {"idle", "acquire"}
    /\ \/ SpeakFaceStep(t)
       \/ SpeakSapiStep(t)
       \/ SpeakFallbackAsync(t)
       \/ SpeakFallbackSync(t)
       \/ LiveSay(t)
       \/ LiveRunAndWait(t)
       \/ Release(t)

NextLive ==
    \/ StepsIdle /\ \E t \in Threads : LiveBegin(t) \/ Advance(t) \/ Acquire(t)
    \/ ThreadsIdle /\ Calls
    \/ Steps

\* Every collaborator call returns or raises, so a call in progress and a
\* thread inside speak() take their next step; a thread waiting for tts_lock
\* gets it if it is free again and again (fair scheduling: threading.Lock
\* itself promises no order among the waiting threads).
Fairness ==
    /\ WF_vars(Steps)
    /\ \A t \in Threads : WF_vars(Advance(t)) /\ SF_vars(Acquire(t))

SpecLive == InitConc /\ [][NextLive]_vars /\ Fairness

(***************************************************************************)
(* Properties                                                              *)
(***************************************************************************)
\* The call that has just returned is a call of op.
Done(op) == pc = "done" /\ call.op = op
\* This step is a call of op, from the state before it to its return.
IsCall(op) == pc = "idle" /\ pc' = "done" /\ call'.op = op

\* Calls made on a collaborator, returned or raised.
Constructs(log) == Count(log, "RobotFace") + Count(log, "RobotFace!")
Connects(log) == Count(log, "io.connect") + Count(log, "io.connect!")
FaceSays(log) == Count(log, "face.say") + Count(log, "face.say!")
FallbackUses(log) ==
    Count(log, "fallback.say") + Count(log, "fallback.say!")
    + Count(log, "fallback.runAndWait") + Count(log, "fallback.runAndWait!")
    + Count(log, "Thread.start") + Count(log, "Thread.start!")

\* C1: after any initialize_face(voice_id, tts_method) has returned, on
\* whichever path, the configuration is exactly (voice_id, tts_method).
C1_ConfigApplied ==
    Done("initialize_face") =>
        /\ current_voice_id = call.voice
        /\ tts_method = call.method

\* C1 witness: a call with a new voice and method whose three session
\* attempts all raised.
C1_Witness ==
    /\ Done("initialize_face")
    /\ call.voice = "v1" /\ call.method = "polly"
    /\ Count(call.log, "RobotFace!") = MaxAttempts
    /\ current_voice_id = "v1" /\ tts_method = "polly"

\* C2: a speak() called with a session held, the SAPI engine present and
\* pyttsx3 importable calls face.say first and never uses the pyttsx3 engine
\* (shared or in a daemon thread), whatever the backends do.
C2_FacePriority ==
    [][(IsCall("speak") /\ face # None /\ sapi_tts # None /\ PYTTSX3_AVAILABLE) =>
            /\ Len(call'.log) >= 1
            /\ call'.log[1] \in {"face.say", "face.say!"}
            /\ FaceSays(call'.log) = 1
            /\ FallbackUses(call'.log) = 0]_vars

\* C2 witness: all three available, face.say and SAPI both raised, and the
\* call failed without touching pyttsx3.
C2_Witness ==
    /\ Done("speak")
    /\ face # None /\ sapi_tts # None /\ PYTTSX3_AVAILABLE
    /\ call.log = <<"face.say!", "sapi.Speak!">>
    /\ call.ret = RetFalse

\* C3: the threads between `with self.tts_lock` and its exit.
InSection == {t \in Threads : tpc[t] \in {"say", "run", "release"}}

\* C3: synchronous speak() calls on the shared engine do not interleave: at
\* most one thread is inside the with-block, it is the one holding tts_lock,
\* and every say on the shared engine that returned is directly followed by
\* the same thread's runAndWait (or that thread is about to call it).
C3_NoInterleaving ==
    /\ Cardinality(InSection) <= 1
    /\ \A t \in Threads : t \in InSection <=> tts_lock = t
    /\ \A i \in 1..Len(engine) :
        (engine[i].op = "say" /\ engine[i].ok) =>
            IF i < Len(engine)
            THEN engine[i + 1].op = "runAndWait" /\ engine[i + 1].thread = engine[i].thread
            ELSE tpc[engine[i].thread] = "run"
    /\ \A i \in 1..Len(engine) :
        engine[i].op = "runAndWait" =>
            /\ i > 1
            /\ engine[i - 1] = [thread |-> engine[i].thread, op |-> "say", ok |-> TRUE]

\* C3 witness: only pyttsx3 is there; one synchronous call has completed, a
\* second is between say and runAndWait, and another thread waits for the lock.
C3_Witness ==
    /\ face = None /\ sapi_tts = None /\ fallback_tts # None
    /\ Len(engine) = 3
    /\ \E t, u \in Threads :
        /\ t # u
        /\ tpc[t] = "run"
        /\ tpc[u] = "acquire"

\* C4: start_face_server() called with face_server_running true returns True
\* at once: no probe, no spawn, no other collaborator call, and every field
\* of the coordinator (handle, session, flag, configuration) is unchanged, so
\* repeating the call changes nothing either.
C4_StartIdempotent ==
    [][(IsCall("start_face_server") /\ face_server_running) =>
            /\ call'.ret = RetTrue
            /\ call'.log = <<>>
            /\ UNCHANGED svcVars]_vars

\* C4 witness: the call returned True without any collaborator call while a
\* spawned process and a session are held.
C4_Witness ==
    /\ Done("start_face_server")
    /\ call.log = <<>> /\ call.ret = RetTrue
    /\ face_server_running
    /\ face_server_process = "Alive"
    /\ face # None

\* Spawned face-server processes that are alive and not terminated.
AliveSpawned == (IF face_server_process = "Alive" THEN 1 ELSE 0) + orphans

\* C5: in every state reachable by serialized calls at most one spawned
\* face-server process is alive (one session reference is all the
\* coordinator has).
C5_AtMostOneProcess == AliveSpawned <= 1

\* What a speak() call's log says about each backend.
SapiUses(log) ==
    Count(log, "sapi.Speak") + Count(log, "sapi.SpeakAsync") + Count(log, "sapi.Speak!")
FaceOk(log) == Has(log, "face.say")
FaceRaised(log) == Has(log, "face.say!")
SapiOk(log) == Has(log, "sapi.Speak") \/ Has(log, "sapi.SpeakAsync")
SapiRaised(log) == Has(log, "sapi.Speak!")
FallbackOk(log) == Has(log, "fallback.runAndWait") \/ Has(log, "Thread.start")
FallbackRaised(log) ==
    Has(log, "fallback.say!") \/ Has(log, "fallback.runAndWait!") \/ Has(log, "Thread.start!")
FallbackInvoked(log) == FallbackOk(log) \/ FallbackRaised(log)

\* C6: speak() returns True or False; False exactly when every backend that
\* is present raised on this call (or none is present), True exactly when
\* one backend completed without error; a backend is invoked at most once,
\* only if present, only after every present backend before it in priority
\* order raised, and never after a backend completed.
C6_SpeakResult ==
    [][IsCall("speak") =>
        LET log == call'.log IN
        /\ call'.ret \in {RetTrue, RetFalse}
        /\ call'.ret = RetFalse <=>
                /\ face # None => FaceRaised(log)
                /\ sapi_tts # None => SapiRaised(log)
                /\ fallback_tts # None => FallbackRaised(log)
        /\ call'.ret = RetTrue <=> (FaceOk(log) \/ SapiOk(log) \/ FallbackOk(log))
        /\ FaceSays(log) <= 1 /\ SapiUses(log) <= 1
        /\ Count(log, "fallback.say") + Count(log, "fallback.say!")
                + Count(log, "Thread.start") + Count(log, "Thread.start!") <= 1
        /\ ~(FaceOk(log) /\ FaceRaised(log))
        /\ ~(SapiOk(log) /\ SapiRaised(log))
        /\ ~(FallbackOk(log) /\ FallbackRaised(log))
        /\ FaceSays(log) > 0 => face # None
        /\ SapiUses(log) > 0 => sapi_tts # None /\ ~FaceOk(log)
                                /\ (face # None => FaceRaised(log))
        /\ FallbackInvoked(log) => fallback_tts # None /\ ~FaceOk(log) /\ ~SapiOk(log)
                                   /\ (face # None => FaceRaised(log))
                                   /\ (sapi_tts # None => SapiRaised(log))]_vars

\* C6 witness: the session raised, no SAPI engine, the shared pyttsx3 engine
\* spoke, and the call returned True.
C6_Witness ==
    /\ Done("speak")
    /\ call.ret = RetTrue
    /\ call.log = <<"face.say!", "fallback.say", "fallback.runAndWait">>

\* C7: initialize_face returns True and never raises, whatever the voice
\* lookup, the server start and the session attempts do.
C7_InitNeverFails == Done("initialize_face") => call.ret = RetTrue

\* C7 witness: the voice lookup raised and all three session attempts raised.
C7_Witness ==
    /\ Done("initialize_face")
    /\ Has(call.log, "GetVoices!")
    /\ Count(call.log, "RobotFace!") = MaxAttempts
    /\ call.ret = RetTrue

\* C8 as claimed: set_appearance on a held session that reports disconnected
\* makes exactly one reconnect attempt, io.connect() calls and session
\* constructions counted together.
C8_OneReconnectAttempt ==
    [][(IsCall("set_appearance") /\ face = "Disconnected") =>
            Connects(call'.log) + Constructs(call'.log) = 1]_vars

\* C8 amended: on a held session that reports disconnected, set_appearance
\* calls io.connect() exactly once, before anything else; if it raises the
\* call returns False with no further collaborator call; sessions are
\* constructed (at most 3) only after io.connect() returned and the first
\* apply raised.
C8_OneConnectCall ==
    [][(IsCall("set_appearance") /\ face = "Disconnected") =>
        LET log == call'.log IN
        /\ Connects(log) = 1
        /\ log[1] \in {"io.connect", "io.connect!"}
        /\ log[1] = "io.connect!" => (Len(log) = 1 /\ call'.ret = RetFalse)
        /\ Constructs(log) <= MaxAttempts
        /\ Constructs(log) > 0 =>
                /\ log[1] = "io.connect"
                /\ log[2] = "face.set_appearance!conn"]_vars

\* C8 witness: io.connect() returned, the apply raised a connection error and
\* three sessions were constructed in the same call.
C8_Witness ==
    /\ Done("set_appearance")
    /\ Connects(call.log) = 1
    /\ Constructs(call.log) = MaxAttempts

\* C9: set_expression with a name outside the table returns False in every
\* state (and does not raise).
C9_UnknownNameFails ==
    (Done("set_expression") /\ call.name \notin expressions) => call.ret = RetFalse

\* C10: with a session held, set_expression with an unknown name returns
\* False, calls no collaborator (no face.express) and changes no field.
C10_UnknownNameFrame ==
    [][(IsCall("set_expression") /\ face # None /\ call'.name \notin expressions) =>
            /\ call'.ret = RetFalse
            /\ call'.log = <<>>
            /\ UNCHANGED svcVars]_vars

\* C10 witness: "glitch" was refused while a connected session is held.
C10_Witness ==
    /\ Done("set_expression")
    /\ call.name = "glitch"
    /\ face = "Connected"
    /\ call.ret = RetFalse
    /\ call.log = <<>>

\* C11: set_expression with a name of the table and no session held calls no
\* collaborator and returns True when PYLIPS_AVAILABLE is false (log-only
\* mode), False when it is true.
C11_DegradedExpression ==
    [][(IsCall("set_expression") /\ face = None /\ call'.name \in expressions) =>
            /\ call'.log = <<>>
            /\ PYLIPS_AVAILABLE => call'.ret = RetFalse
            /\ ~PYLIPS_AVAILABLE => call'.ret = RetTrue]_vars

\* C11 witness: "happy" acknowledged with no session and PyLips not importable.
C11_Witness ==
    /\ Done("set_expression")
    /\ call.name = "happy"
    /\ face = None /\ ~PYLIPS_AVAILABLE
    /\ call.ret = RetTrue

\* The session call each of the two methods delegates to.
Delegate(op) == IF op = "look_at" THEN "face.look" ELSE "face.stop_speech"
\* The log entry of a call that raised.
Raised(e) == IF e = "face.look" THEN "face.look!" ELSE "face.stop_speech!"

\* C12: look_at and stop_speech with no session held return False, call no
\* collaborator and change no field; with a session held they make the
\* delegated session call once and nothing else, return True when it
\* returned and False when it raised, and change no field.
C12_SessionRequired ==
    [][\A op \in {"look_at", "stop_speech"} :
        IsCall(op) =>
            /\ face = None => (call'.ret = RetFalse /\ call'.log = <<>>)
            /\ face # None =>
                    \/ call'.log = <<Delegate(op)>> /\ call'.ret = RetTrue
                    \/ call'.log = <<Raised(Delegate(op))>> /\ call'.ret = RetFalse
            /\ UNCHANGED svcVars]_vars

\* C12 witness: stop_speech on a held session whose stop_speech raised.
C12_Witness ==
    /\ Done("stop_speech")
    /\ face # None
    /\ call.log = <<"face.stop_speech!">>
    /\ call.ret = RetFalse

Operations ==
    {"start_face_server", "stop_face_server", "initialize_face", "speak",
     "set_expression", "look_at", "stop_speech", "set_appearance"}

\* C14: no operation of the coordinator lets a collaborator's exception
\* out: every call returns.
C14_NoFaultPropagates == (pc = "done" /\ call.op \in Operations) => call.ret # Raise

\* Calls of the session's set_appearance, and of initialize_face, within one
\* set_appearance call.
Applies(log) ==
    Count(log, "face.set_appearance") + Count(log, "face.set_appearance!")
    + Count(log, "face.set_appearance!conn")
Reinits(log) == Count(log, "initialize_face")
\* The position of the first entry e of the log, 0 when there is none.
First(log, e) ==
    IF Has(log, e) THEN CHOOSE i \in 1..Len(log) :
                            log[i] = e /\ \A j \in 1..(i - 1) : log[j] # e
    ELSE 0

\* C15: one set_appearance call applies at most twice and re-initializes at
\* most once, with the configuration it found; it re-initializes exactly
\* when the first apply raised a connection error, and a second apply comes
\* only after that re-initialization, as the last call made; a first apply
\* raising another error ends the call with False, and so does a second
\* apply that raises.
C15_OneRetry ==
    [][IsCall("set_appearance") =>
        LET log == call'.log
            n == Len(log)
        IN  /\ Applies(log) <= 2
            /\ Reinits(log) <= 1
            /\ Reinits(log) = 1 <=> Has(log, "face.set_appearance!conn")
            /\ Reinits(log) = 1 =>
                    First(log, "initialize_face") = First(log, "face.set_appearance!conn") + 1
            /\ Count(log, "face.set_appearance!conn") <= 1
            /\ Applies(log) = 2 =>
                    /\ Reinits(log) = 1
                    /\ log[n] \in {"face.set_appearance", "face.set_appearance!"}
                    /\ First(log, "initialize_face") < n
                    /\ \A i \in 1..(n - 1) :
                            log[i] \notin {"face.set_appearance", "face.set_appearance!"}
            /\ Has(log, "face.set_appearance!") =>
                    (log[n] = "face.set_appearance!" /\ call'.ret = RetFalse)
            /\ (Has(log, "face.set_appearance!") /\ Reinits(log) = 0) => Applies(log) = 1
            /\ UNCHANGED <<current_voice_id, tts_method>>]_vars

\* C15 witness: the first apply raised a connection error, initialize_face
\* connected a new session, and the second apply raised.
C15_Witness ==
    /\ Done("set_appearance")
    /\ Applies(call.log) = 2
    /\ Has(call.log, "connected")
    /\ call.log[Len(call.log)] = "face.set_appearance!"
    /\ call.ret = RetFalse

\* C16: a start_face_server() call that spawned a process and saw it alive
\* and the port closed at all 10 polls returns False, terminates nothing,
\* keeps the handle of the live process and leaves the flag false; a call
\* that found the process exited at a poll returns False at that poll,
\* before that iteration's port probe, with the flag false; and no call that
\* spawned a process returns True with that process exited.
C16_TimeoutAndExit ==
    [][IsCall("start_face_server") =>
        LET log == call'.log
            n == Len(log)
            polls == Count(log, "poll")
            ended == n >= 2 /\ log[n - 1] = "poll" /\ log[n] = "communicate"
        IN  /\ (ended /\ polls = PollLimit + 1) =>
                    /\ call'.ret = RetFalse
                    /\ Count(log, "connect_ex") = PollLimit + 1
                    /\ Count(log, "terminate") + Count(log, "terminate!") = 0
                    /\ face_server_process' = "Alive"
                    /\ ~face_server_running'
            /\ (ended /\ polls <= PollLimit) =>
                    /\ call'.ret = RetFalse
                    /\ Count(log, "connect_ex") = polls
                    /\ face_server_process' = "Exited"
                    /\ ~face_server_running'
            /\ (Has(log, "Popen") /\ face_server_process' = "Exited") =>
                    (call'.ret = RetFalse /\ ~face_server_running')]_vars

\* C16 witness: the ten polls passed, the process is alive and its handle
\* held, the call returned False.
C16_Witness ==
    /\ Done("start_face_server")
    /\ Count(call.log, "poll") = PollLimit + 1
    /\ call.log[Len(call.log)] = "communicate"
    /\ face_server_process = "Alive"
    /\ ~face_server_running
    /\ call.ret = RetFalse

\* C17: stop_face_server() with a handle held calls terminate() exactly
\* once and clears the handle and the flag; with no handle held (as after a
\* first call) it calls nothing and changes no field; the configuration is
\* never changed.
C17_StopIdempotent ==
    [][IsCall("stop_face_server") =>
        LET signals == Count(call'.log, "terminate") + Count(call'.log, "terminate!")
        IN  /\ face_server_process # None =>
                    /\ signals = 1
                    /\ face_server_process' = None
                    /\ ~face_server_running'
            /\ face_server_process = None => (call'.log = <<>> /\ UNCHANGED svcVars)
            /\ UNCHANGED <<current_voice_id, tts_method>>]_vars

\* C18: one initialize_face call constructs at most 3 sessions; an attempt
\* whose session has no io attribute or is seen connected is the last thing
\* the call does, it returns True with that session held; and an attempt
\* follows only an attempt that raised or was seen unconnected.
C18_AttemptsBounded ==
    Done("initialize_face") =>
        LET log == call.log
            n == Len(log)
        IN  /\ Constructs(log) <= MaxAttempts
            /\ \A i \in 1..n :
                    log[i] \in {"connected", "noio"} =>
                        /\ i = n
                        /\ call.ret = RetTrue
                        /\ face = (IF log[i] = "connected" THEN "Connected" ELSE "NoIO")
            /\ \A i \in 2..n :
                    log[i] \in {"RobotFace", "RobotFace!"} =>
                        log[i - 1] \in {"RobotFace!", "unconnected", "connect_ex",
                                        "GetVoices", "GetVoices!"}

\* C18 witness: the first attempt raised, the second was not connected, the
\* third connected and ended the call.
C18_Witness ==
    /\ Done("initialize_face")
    /\ Constructs(call.log) = MaxAttempts
    /\ Has(call.log, "RobotFace!")
    /\ Has(call.log, "unconnected")
    /\ call.log[Len(call.log)] = "connected"
    /\ face = "Connected"

\* An initialize_face call in degraded conditions: PyLips is not importable,
\* or it is and the server was not running and is not running afterwards
\* (start_face_server returned False).
LibraryMissing == IsCall("initialize_face") /\ ~PYLIPS_AVAILABLE
StartFailed ==
    /\ IsCall("initialize_face")
    /\ PYLIPS_AVAILABLE
    /\ ~face_server_running
    /\ ~face_server_running'

\* C19 as claimed: in degraded conditions initialize_face changes only the
\* configuration: the session, the process handle and the flag are as before.
C19_OnlyConfigChanges ==
    [][(LibraryMissing \/ StartFailed) =>
            UNCHANGED <<face, face_server_process, face_server_running>>]_vars

\* C19 amended: with PyLips not importable initialize_face returns True
\* without probing, spawning or constructing, and the session, the handle and
\* the flag are unchanged; when start_face_server fails it returns True
\* without constructing a session, the session and the flag (false) are
\* unchanged, and the handle changes only by a spawn of that start.
C19_DegradedFrame ==
    [][/\ LibraryMissing =>
            /\ call'.ret = RetTrue
            /\ \A i \in 1..Len(call'.log) : call'.log[i] \in {"GetVoices", "GetVoices!"}
            /\ UNCHANGED <<face, face_server_process, face_server_running, orphans>>
       /\ StartFailed =>
            /\ call'.ret = RetTrue
            /\ Constructs(call'.log) = 0
            /\ UNCHANGED <<face, face_server_running>>
            /\ face_server_process' # face_server_process => Has(call'.log, "Popen")]_vars

\* C19 witness: a session was held, the server had been stopped, and the
\* start inside initialize_face spawned a process that never opened the port:
\* the session is still held, the new handle is kept.
C19_Witness ==
    /\ Done("initialize_face")
    /\ PYLIPS_AVAILABLE
    /\ ~face_server_running
    /\ Has(call.log, "Popen")
    /\ Constructs(call.log) = 0
    /\ face_server_process = "Alive"
    /\ face = "Connected"
    /\ call.ret = RetTrue

\* The log entries of each backend of speak().
SapiEntries == {"sapi.Speak", "sapi.SpeakAsync", "sapi.Speak!"}
FallbackEntries == {"fallback.say", "fallback.say!", "Thread.start", "Thread.start!"}

\* C20: every speak() with a session held calls face.say first; when it
\* raises it is not called again, the next call made is on the SAPI engine
\* if there is one, else on pyttsx3 if there is one, else the call returns
\* False; and the session, the handle, the flag and the configuration are
\* unchanged.
C20_SayFailureFallsThrough ==
    [][(IsCall("speak") /\ face # None) =>
        LET log == call'.log IN
        /\ Len(log) >= 1
        /\ log[1] \in {"face.say", "face.say!"}
        /\ log[1] = "face.say!" =>
                /\ FaceSays(log) = 1
                /\ sapi_tts # None => (Len(log) >= 2 /\ log[2] \in SapiEntries)
                /\ (sapi_tts = None /\ fallback_tts # None) =>
                        (Len(log) >= 2 /\ log[2] \in FallbackEntries)
                /\ (sapi_tts = None /\ fallback_tts = None) =>
                        (Len(log) = 1 /\ call'.ret = RetFalse)
                /\ UNCHANGED svcVars]_vars

\* C20 witness: say raised on a held session, the shared pyttsx3 engine spoke
\* instead, and the session is still held.
C20_Witness ==
    /\ Done("speak")
    /\ Len(call.log) >= 2
    /\ call.log[1] = "face.say!"
    /\ Has(call.log, "fallback.runAndWait")
    /\ call.ret = RetTrue
    /\ face = "Connected"
    /\ face_server_running

\* C21: an asynchronous speak() on the pyttsx3 path never takes tts_lock
\* (only a thread called with wait true is at or inside the with-block) and
\* its background thread never uses the shared engine.
C21_AsyncIsolated ==
    /\ \A t \in Threads : tpc[t] \in {"acquire", "say", "run", "release"} => twait[t]
    /\ sharing = 0

\* The positions of each method.
StartPositions == {"start", "probe0", "popen", "poll", "probe", "after"}
InitPositions == {"init", "init:started", "attempt"}
AppearancePositions == {"app", "app:connect", "app:apply1", "app:reinit", "app:apply2"}

\* The loops stay within their ranges and the calls within their nesting:
\* start_face_server is in its 10th iteration at most, initialize_face in its
\* 3rd attempt at most; a nested start_face_server is the one call of an
\* initialize_face waiting at "init:started", a nested initialize_face the
\* one call of a set_appearance waiting at "app:reinit", and no
\* set_appearance is ever called from another method.
StepsBounded ==
    /\ Len(stk) <= 3
    /\ \A k \in 1..Len(stk) :
        /\ stk[k].at \in {"poll", "probe", "after"} => stk[k].i <= PollLimit
        /\ stk[k].at = "poll" => stk[k].i < PollLimit
        /\ stk[k].at = "attempt" => stk[k].i < MaxAttempts
        /\ stk[k].at \in AppearancePositions => k = 1
        /\ k > 1 =>
            \/ stk[k].at \in StartPositions /\ stk[k - 1].at = "init:started"
            \/ stk[k].at \in InitPositions /\ stk[k - 1].at = "app:reinit"

\* C22: every call of start_face_server, stop_face_server, initialize_face
\* and set_appearance returns, within the bounds of StepsBounded; every
\* speak() returns; and a thread waiting for tts_lock enters the with-block.
C22_EventuallyReturns ==
    /\ []StepsBounded
    /\ (stk # <<>>) ~> (stk = <<>>)
    /\ \A t \in Threads :
        /\ (tpc[t] = "acquire") ~> (tpc[t] = "say")
        /\ (tpc[t] # "idle") ~> (tpc[t] = "idle")

\* C22 witness: set_appearance has called initialize_face, which has called
\* start_face_server, which is at the port probe of its last iteration.
C22_Witness ==
    /\ Len(stk) = 3
    /\ stk[1].at = "app:reinit"
    /\ stk[2].at = "init:started"
    /\ stk[3] = Frame("probe", PollLimit)


\* C23: after initialize_face returns, a session is held only if it was
\* confirmed connected or has no connectivity check; when all three attempts
\* raised or were found unconnected, no session is held.
C23_OnlyConfirmedSession ==
    Done("initialize_face") =>
        /\ face # None => face \in {"Connected", "NoIO"}
        /\ ( /\ Constructs(call.log) = MaxAttempts
             /\ ~Has(call.log, "connected")
             /\ ~Has(call.log, "noio") ) => face = None


\* C24: after stop_face_server (alone or within POST /stop) returns, the
\* running flag is false and no process handle is held, whatever set the
\* flag.
C24_StopClearsFlag ==
    ((Done("stop_face_server") \/ Done("stop_service")) /\ call.ret # Raise) =>
        /\ ~face_server_running
        /\ face_server_process = None

\* The operations that are not meant to configure the service.
NonConfiguring == {"speak", "set_expression", "look_at", "stop_speech", "set_appearance"}

\* C25: a call of speak, set_expression, look_at, stop_speech or
\* set_appearance leaves current_voice_id and tts_method as they were,
\* including when set_appearance re-initializes the session.
C25_ConfigUnchanged ==
    [][(\E op \in NonConfiguring : IsCall(op)) =>
            UNCHANGED <<current_voice_id, tts_method>>]_vars

\* C25 witness: set_appearance re-initialized the session under a
\* configuration that is not the constructor's, and the configuration stands.
C25_Witness ==
    /\ Done("set_appearance")
    /\ Reinits(call.log) = 1
    /\ Constructs(call.log) >= 1
    /\ current_voice_id = "v1"
    /\ tts_method = "polly"

============================================================================
